---- MODULE Spec2Model ----
(***************************************************************************)
(* Progression engine of the fitness competition tracker.                  *)
(*                                                                         *)
(* userRouter.logExercise (src/src/lib/trpc/routers/user.ts:98-232) runs   *)
(* inside db.transaction(...) with no isolation level given, i.e. a        *)
(* PostgreSQL transaction at the default READ COMMITTED level:             *)
(*   - every statement reads the rows committed at the time it runs, plus  *)
(*     the transaction's own uncommitted writes;                           *)
(*   - an UPDATE takes the row's lock until commit/rollback; an UPDATE of  *)
(*     a row locked by another transaction waits, and then applies its SET *)
(*     list (values computed earlier in JavaScript) to the newest row;     *)
(*   - a plain SELECT never waits;                                         *)
(*   - an exception thrown in the callback rolls every write back.         *)
(* Each await of the handler is one step of a request.                     *)
(*                                                                         *)
(* Specifications:                                                         *)
(*   Spec            userRouter.logExercise, members starting at 0 points  *)
(*   VeteranSpec     the same, members starting at the top ladder level    *)
(*   WindowSpec      the clock, the listActive queries and the earlier     *)
(*                   challengeRouter.logExercise                           *)
(*   LeaderboardSpec seasonRouter / challengeRouter getLeaderboard         *)
(*   CreateSpec      the four procedures creating seasons and challenges   *)
(*   DeleteSpec      adminRouter.deleteExercise beside userRouter.logExercise *)
(***************************************************************************)
EXTENDS Integers, Sequences, FiniteSets, TLC

\* ------------------------------------------------------------- bounds
MaxRequests == 2
\* the clock runs from 0 to MaxNow
MaxNow == 3
\* rows the earlier challengeRouter.logExercise may add to the exercises table
MaxExercises == 2
\* getLeaderboard is called with limit in 1..MaxLimit and cursor up to MaxCursor
MaxLimit == 2
MaxCursor == 3

\* --------------------------------------------------- program constants
basePoints == 10

\* ------------------------------------------------------------ universe
Requests == 1..MaxRequests

\* Concurrent seasonRouter.create calls.
MaxSeasonCreateCalls == 2
\* startsAt and endsAt of a create input are drawn from 1..MaxCreateTime
MaxCreateTime == 3
\* rows the create procedures may add to seasons and challenges together
MaxCreated == 2
SeasonCreateCalls == 1..MaxSeasonCreateCalls

\* Concurrent seasonRouter.update calls.
MaxSeasonUpdateCalls == 2
SeasonUpdateCalls == 1..MaxSeasonUpdateCalls

NULL == "NULL"

\* Clerk user ids; "u0" is signed in but has no user_profiles row (the
\* user.created webhook has not run for it).
UserIds == {"u0", "u1", "u2", "u3"}
ProfiledUsers == {"u1", "u2", "u3"}
TeamIds == {"t1", "t2"}

\* exercise_catalog rows: id -> difficultyId (NULL: the column is nullable).
\* "e9" is a well-formed uuid with no row.
InitialExerciseCatalog == [e \in {"e0", "e2"} |->
                      IF e = "e0" THEN 0   \* difficulty_id IS NULL
                                  ELSE 2]
ExerciseIds == DOMAIN InitialExerciseCatalog \cup {"e9"}

\* challenges rows.  "c1" is open at the initial clock value 0 (it starts
\* exactly then), "c2" ended before it.  "c9" is a uuid with no row.
InitialChallenges == [c \in {"c1", "c2"} |->
                 IF c = "c1"
                 THEN [seasonId |-> "s1", startsAt |-> 0, endsAt |-> 2, pointsMultiplier |-> 3]
                 ELSE [seasonId |-> "s2", startsAt |-> -2, endsAt |-> -1, pointsMultiplier |-> 2]]
ChallengeIds == DOMAIN InitialChallenges \cup {"c9"}

\* seasons rows.
InitialSeasons == [s \in {"s1", "s2"} |->
              IF s = "s1"
              THEN [startsAt |-> 0, endsAt |-> 1, isActive |-> TRUE]
              ELSE [startsAt |-> -3, endsAt |-> 3, isActive |-> FALSE]]

\* level_requirements rows: level -> pointsRequired (strictly increasing).
levelRequirements == [l \in 1..4 |->
                        CASE l = 1 -> 0
                          [] l = 2 -> 20
                          [] l = 3 -> 30
                          [] l = 4 -> 60]

\* team_members rows: userId -> teamId (a user has at most one row).
teamMembers == [u \in {"u1", "u2"} |-> "t1"]

VARIABLES
    userProfiles,   \* committed user_profiles rows
    teams,          \* committed teams rows
    exerciseLogs,   \* committed exercise_logs rows
    rowLock,        \* row -> the request whose transaction holds its lock, or 0
    pc,             \* request -> position in the handler
    local,          \* request -> the handler's local variables and pending writes
    now,            \* the clock
    exercises,      \* committed rows of the earlier exercises table
    activeChallenges,   \* what the last challengeRouter.listActive call returned
    activeSeasons,      \* what the last seasonRouter.listActive call returned
    exerciseCatalog,    \* committed exercise_catalog rows: id -> difficulty id (0: none)
    challenges,         \* committed challenges rows
    seasons,            \* committed seasons rows
    leaderboards,       \* committed leaderboards rows
    leaderboard,        \* what the last getLeaderboard call returned
    previousLeaderboard,    \* what the getLeaderboard call before it returned
    seasonCreate,       \* call -> position and input of a seasonRouter.create call
    createResult,       \* outcome of the last single-statement create call
    seasonUpdate,       \* call -> position and input of a seasonRouter.update call
    roles,              \* user -> publicMetadata.role of the Clerk user
    roleCall,           \* the last call that asked for a role change
    deleteExercise      \* position, input and outcome of adminRouter.deleteExercise

vars == <<userProfiles, teams, exerciseLogs, rowLock, pc, local, now,
          exercises, activeChallenges, activeSeasons,
          exerciseCatalog, challenges, seasons,
          leaderboards, leaderboard, previousLeaderboard,
          seasonCreate, createResult, deleteExercise,
          seasonUpdate, roles, roleCall>>

\* What userRouter.logExercise never touches.
windowVars == <<now, exercises, activeChallenges, activeSeasons>>

\* Catalog tables, written by the administration procedures only.
catalogVars == <<exerciseCatalog, challenges, seasons>>

\* The leaderboards table and what the getLeaderboard calls returned.
leaderboardVars == <<leaderboards, leaderboard, previousLeaderboard>>

\* The roles kept by the identity provider and the last role call.
roleVars == <<roles, roleCall>>

\* The frames of the administration calls.
adminVars == <<seasonCreate, createResult, deleteExercise>>

\* The committed store, as any other request can observe it.
committed == <<userProfiles, teams, exerciseLogs>>

NoProfile == [totalPoints |-> -1, currentPoints |-> -1, teamPoints |-> -1, level |-> -1]
NoTeam == [id |-> NULL, totalTeamPoints |-> -1, teamLevel |-> -1]
NoLog == [id |-> 0, userId |-> NULL, exerciseId |-> NULL, challengeId |-> NULL,
          difficultyMultiplier |-> 0, points |-> 0]

NewProfile == [totalPoints |-> 0, currentPoints |-> 0, teamPoints |-> 0, level |-> 1]
NewTeam == [totalTeamPoints |-> 0, teamLevel |-> 1]

Rows == {<<"user_profiles", u>> : u \in ProfiledUsers} \cup {<<"teams", t>> : t \in TeamIds}

InitLocal == [userId |-> NULL, exerciseId |-> NULL, challengeId |-> NULL,
              difficultyMultiplier |-> 0, points |-> 0,
              exerciseLog |-> NoLog,          \* row inserted in the transaction
              currentProfile |-> NoProfile,   \* result of the profile SELECT
              leveledUp |-> FALSE,
              updatedProfile |-> NoProfile,   \* row returned by the first UPDATE
              txProfile |-> NoProfile,        \* uncommitted version of the profile row
              userTeam |-> NoTeam,            \* result of the teamMembers SELECT
              txTeam |-> NoTeam,              \* uncommitted version of the team row
              error |-> NULL]

\* No getLeaderboard call yet.  A cursor is the set of the number given, empty
\* when the optional input (or the nextCursor of the result) is absent.
NoLeaderboard == [called |-> FALSE, scope |-> NULL, id |-> NULL, limit |-> 0,
                  cursor |-> {}, items |-> <<>>, nextCursor |-> {}]

InitSeasonCreate == [pc |-> "idle", startsAt |-> 0, endsAt |-> 0, isActive |-> FALSE,
                     error |-> NULL]

NoCreateResult == [procedure |-> NULL, error |-> NULL]

InitDeleteExercise == [pc |-> "idle", id |-> NULL, error |-> NULL]

\* An optional input field is the set of the value given, empty when absent.
InitSeasonUpdate == [pc |-> "idle", id |-> NULL, startsAt |-> {}, endsAt |-> {},
                     isActive |-> {}, error |-> NULL]

\* publicMetadata.role of the users: "u1" is the administrator, everyone else
\* has no admin role ("u0" is a signed-in user without a profile).
InitialRoles == [u \in UserIds |-> IF u = "u1" THEN "admin" ELSE "user"]

NoRoleCall == [procedure |-> NULL, caller |-> NULL, callerIsAdmin |-> FALSE,
               target |-> NULL, error |-> NULL]

\* The catalog tables hold their initial rows.
InitCatalog ==
    /\ exerciseCatalog = InitialExerciseCatalog
    /\ challenges = InitialChallenges
    /\ seasons = InitialSeasons

\* No getLeaderboard call and no administration call has been made.
InitCalls ==
    /\ leaderboard = NoLeaderboard
    /\ previousLeaderboard = NoLeaderboard
    /\ seasonCreate = [k \in SeasonCreateCalls |-> InitSeasonCreate]
    /\ createResult = NoCreateResult
    /\ deleteExercise = InitDeleteExercise
    /\ seasonUpdate = [k \in SeasonUpdateCalls |-> InitSeasonUpdate]
    /\ roles = InitialRoles
    /\ roleCall = NoRoleCall

Init ==
    /\ InitCatalog
    /\ userProfiles = [u \in ProfiledUsers |-> NewProfile]
    /\ teams = [t \in TeamIds |-> NewTeam]
    /\ exerciseLogs = {}
    /\ rowLock = [row \in Rows |-> 0]
    /\ pc = [r \in Requests |-> "idle"]
    /\ local = [r \in Requests |-> InitLocal]
    /\ now = 0
    /\ exercises = {}
    /\ activeChallenges = [called |-> FALSE, now |-> 0, rows |-> {}]
    /\ activeSeasons = [called |-> FALSE, now |-> 0, rows |-> {}]
    /\ leaderboards = {}
    /\ InitCalls

\* ------------------------------------------------------------ helpers

\* const difficultyMultiplier = exercise.difficulty?.id || 1;
DifficultyMultiplier(exerciseId) ==
    IF exerciseCatalog[exerciseId] = 0 THEN 1 ELSE exerciseCatalog[exerciseId]

\* const points = basePoints * difficultyMultiplier;
Points(exerciseId, challengeId) == basePoints * DifficultyMultiplier(exerciseId)

\* The exception leaves db.transaction's callback: ROLLBACK.  The pending
\* writes are dropped and the row locks released; of the handler's frame only
\* the request's input and the error reach the caller.
Rollback(r, err) ==
    /\ pc' = [pc EXCEPT ![r] = "failed"]
    /\ local' = [local EXCEPT ![r] = [InitLocal EXCEPT !.userId = local[r].userId,
                                                        !.exerciseId = local[r].exerciseId,
                                                        !.challengeId = local[r].challengeId,
                                                        !.error = err]]
    /\ rowLock' = [row \in Rows |-> IF rowLock[row] = r THEN 0 ELSE rowLock[row]]
    /\ UNCHANGED <<userProfiles, teams, exerciseLogs, windowVars, catalogVars, leaderboardVars, roleVars, seasonUpdate, adminVars>>

\* ------------------------------------------------------------ actions

\* BEGIN; findFirst(exerciseCatalog); points computation.
FindExercise(r, userId, exerciseId, challengeId) ==
    /\ pc[r] = "idle"
    /\ \A q \in Requests : q < r => pc[q] # "idle"
    /\ IF exerciseId \notin DOMAIN exerciseCatalog
       THEN /\ pc' = [pc EXCEPT ![r] = "failed"]
            /\ local' = [local EXCEPT ![r] = [@ EXCEPT !.userId = userId,
                                                        !.exerciseId = exerciseId,
                                                        !.challengeId = challengeId,
                                                        !.error = "NOT_FOUND"]]
       ELSE /\ pc' = [pc EXCEPT ![r] = "found"]
            /\ local' = [local EXCEPT ![r] =
                           [@ EXCEPT !.userId = userId,
                                     !.exerciseId = exerciseId,
                                     !.challengeId = challengeId,
                                     !.difficultyMultiplier = DifficultyMultiplier(exerciseId),
                                     !.points = Points(exerciseId, challengeId)]]
    /\ UNCHANGED <<userProfiles, teams, exerciseLogs, rowLock, windowVars, catalogVars, leaderboardVars, roleVars, seasonUpdate, adminVars>>

\* tx.insert(exerciseLogs).values({...}).returning().  The row stays private to
\* the transaction.  exercise_logs.user_id and challenge_id are foreign keys
\* (schema.ts:271-273): a userId without a user_profiles row, or a challengeId
\* without a challenges row, makes the INSERT throw.
LogRow(r) ==
    [id |-> r, userId |-> local[r].userId, exerciseId |-> local[r].exerciseId,
     challengeId |-> local[r].challengeId,
     difficultyMultiplier |-> local[r].difficultyMultiplier,
     points |-> local[r].points]

ForeignKeysHold(row) ==
    /\ row.userId \in DOMAIN userProfiles
    /\ row.challengeId = NULL \/ row.challengeId \in DOMAIN challenges
    /\ row.exerciseId \in DOMAIN exerciseCatalog

\* exercise_logs as the other requests see it once request r has inserted its row.
LogsAfterInsert(r) == exerciseLogs

InsertLog(r) ==
    /\ pc[r] = "found"
    /\ IF ~ForeignKeysHold(LogRow(r))
       THEN Rollback(r, "FOREIGN_KEY_VIOLATION")
       ELSE /\ pc' = [pc EXCEPT ![r] = "inserted"]
            /\ local' = [local EXCEPT ![r] = [@ EXCEPT !.exerciseLog = LogRow(r)]]
            /\ exerciseLogs' = LogsAfterInsert(r)
            /\ UNCHANGED <<userProfiles, teams, rowLock, windowVars, catalogVars, leaderboardVars, roleVars, seasonUpdate, adminVars>>

\* tx.query.userProfiles.findFirst(...): a plain SELECT, reads the committed row.
ReadProfile(r) ==
    /\ pc[r] = "inserted"
    /\ IF local[r].userId \notin DOMAIN userProfiles
       THEN Rollback(r, "NOT_FOUND")
       ELSE /\ pc' = [pc EXCEPT ![r] = "profileRead"]
            /\ local' = [local EXCEPT ![r] =
                           [@ EXCEPT !.currentProfile = userProfiles[local[r].userId]]]
            /\ UNCHANGED <<userProfiles, teams, exerciseLogs, rowLock, windowVars, catalogVars, leaderboardVars, roleVars, seasonUpdate, adminVars>>

\* A level-up test that takes a missing next-level row for a reached one.
LeveledUpWithoutNextLevel(level, newTotalPoints) ==
    \/ level + 1 \notin DOMAIN levelRequirements
    \/ newTotalPoints >= levelRequirements[level + 1]

\* const leveledUp = nextLevel && newTotalPoints >= nextLevel.pointsRequired;
LeveledUp(level, newTotalPoints) ==
    /\ level + 1 \in DOMAIN levelRequirements
    /\ newTotalPoints >= levelRequirements[level + 1]

\* A level computation that climbs to every level the new total has reached.
NewLevelClimbing(level, newTotalPoints) ==
    IF level + 2 \in DOMAIN levelRequirements /\ newTotalPoints >= levelRequirements[level + 2]
    THEN level + 2
    ELSE IF level + 1 \in DOMAIN levelRequirements
            /\ newTotalPoints >= levelRequirements[level + 1]
         THEN level + 1
         ELSE level

\* const newLevel = leveledUp ? currentProfile.level + 1 : currentProfile.level;
NewLevel(level, newTotalPoints) ==
    IF LeveledUp(level, newTotalPoints) THEN level + 1 ELSE level

\* A SET list that restarts currentPoints at the new level's threshold.
ProfileUpdateResetting(currentProfile, points) ==
    [totalPoints |-> currentProfile.totalPoints + points,
     currentPoints |->
         IF LeveledUp(currentProfile.level, currentProfile.totalPoints + points)
         THEN currentProfile.totalPoints + points
                  - levelRequirements[currentProfile.level + 1]
         ELSE currentProfile.currentPoints + points,
     level |-> NewLevel(currentProfile.level, currentProfile.totalPoints + points)]

\* The SET list of the first UPDATE, computed from the profile read earlier.
ProfileUpdate(currentProfile, points) ==
    [totalPoints |-> currentProfile.totalPoints + points,
     currentPoints |-> currentProfile.currentPoints + points,
     level |-> NewLevel(currentProfile.level, currentProfile.totalPoints + points)]

\* nextLevel lookup, then tx.update(userProfiles).set({...}).returning().
\* Waits while another transaction holds the row's lock; the columns not in
\* the SET list keep the value of the newest committed row.
UpdateProfile(r) ==
    /\ pc[r] = "profileRead"
    /\ LET u == local[r].userId
           row == <<"user_profiles", u>>
           set == ProfileUpdate(local[r].currentProfile, local[r].points)
           newRow == [userProfiles[u] EXCEPT !.totalPoints = set.totalPoints,
                                             !.currentPoints = set.currentPoints,
                                             !.level = set.level]
       IN /\ rowLock[row] \in {0, r}
          /\ rowLock' = [rowLock EXCEPT ![row] = r]
          /\ local' = [local EXCEPT ![r] =
                         [@ EXCEPT !.leveledUp = LeveledUp(local[r].currentProfile.level,
                                                           set.totalPoints),
                                   !.updatedProfile = newRow,
                                   !.txProfile = newRow]]
    /\ pc' = [pc EXCEPT ![r] = "profileUpdated"]
    /\ UNCHANGED <<userProfiles, teams, exerciseLogs, windowVars, catalogVars, leaderboardVars, roleVars, seasonUpdate, adminVars>>

\* tx.query.teamMembers.findFirst({with: {team: true}}): a plain SELECT.
ReadUserTeam(r) ==
    /\ pc[r] = "profileUpdated"
    /\ LET u == local[r].userId IN
       IF u \in DOMAIN teamMembers
       THEN /\ pc' = [pc EXCEPT ![r] = "teamRead"]
            /\ local' = [local EXCEPT ![r] =
                  [@ EXCEPT !.userTeam =
                      [id |-> teamMembers[u],
                       totalTeamPoints |-> teams[teamMembers[u]].totalTeamPoints,
                       teamLevel |-> teams[teamMembers[u]].teamLevel]]]
       ELSE /\ pc' = [pc EXCEPT ![r] = "ready"]
            /\ local' = local
    /\ UNCHANGED <<userProfiles, teams, exerciseLogs, rowLock, windowVars, catalogVars, leaderboardVars, roleVars, seasonUpdate, adminVars>>

\* A team total that ignores the award.
TeamUpdateWithoutPoints(userTeam, points) == userTeam.totalTeamPoints

\* totalTeamPoints: userTeam.team.totalTeamPoints + points
TeamUpdate(userTeam, points) == userTeam.totalTeamPoints + points

\* tx.update(teams).set({totalTeamPoints}); tx.update(userProfiles).set({teamPoints}).
\* The team row's lock may be held by another member's transaction; the
\* profile row's lock is already ours.
UpdateTeam(r) ==
    /\ pc[r] = "teamRead"
    /\ LET t == local[r].userTeam.id
           row == <<"teams", t>>
       IN /\ rowLock[row] \in {0, r}
          /\ rowLock' = [rowLock EXCEPT ![row] = r]
          /\ local' = [local EXCEPT ![r] =
                [@ EXCEPT !.txTeam = [id |-> t,
                                      totalTeamPoints |->
                                          TeamUpdate(local[r].userTeam, local[r].points),
                                      teamLevel |-> teams[t].teamLevel],
                          !.txProfile = [@ EXCEPT !.teamPoints =
                                local[r].currentProfile.teamPoints + local[r].points]]]
    /\ pc' = [pc EXCEPT ![r] = "ready"]
    /\ UNCHANGED <<userProfiles, teams, exerciseLogs, windowVars, catalogVars, leaderboardVars, roleVars, seasonUpdate, adminVars>>

\* A return value that always announces a level-up.
ReturnedAlwaysLeveledUp(frame) ==
    [InitLocal EXCEPT !.userId = frame.userId,
                      !.exerciseId = frame.exerciseId,
                      !.challengeId = frame.challengeId,
                      !.exerciseLog = frame.exerciseLog,
                      !.updatedProfile = frame.updatedProfile,
                      !.leveledUp = TRUE,
                      !.points = frame.points]

\* return { exerciseLog, profile: updatedProfile, leveledUp, pointsEarned: points }:
\* what is left of the handler's frame once it has returned.
Returned(frame) ==
    [InitLocal EXCEPT !.userId = frame.userId,
                      !.exerciseId = frame.exerciseId,
                      !.challengeId = frame.challengeId,
                      !.exerciseLog = frame.exerciseLog,
                      !.updatedProfile = frame.updatedProfile,
                      !.leveledUp = frame.leveledUp,
                      !.points = frame.points]

\* An UPDATE of user_profiles without its WHERE clause.
ProfilesAfterUpdateOfAll(userId, row) == [u \in DOMAIN userProfiles |-> row]

\* tx.update(userProfiles).set(...).where(eq(userProfiles.userId, ctx.userId)):
\* user_profiles once the transaction's version of the caller's row is installed.
ProfilesAfterUpdate(userId, row) == [userProfiles EXCEPT ![userId] = row]

\* The callback returns: COMMIT.  Every pending write becomes visible at once
\* and the locks are released.
Commit(r) ==
    /\ pc[r] = "ready"
    /\ pc' = [pc EXCEPT ![r] = "done"]
    /\ exerciseLogs' = exerciseLogs \cup {local[r].exerciseLog}
    /\ userProfiles' = ProfilesAfterUpdate(local[r].userId, local[r].txProfile)
    /\ teams' = IF local[r].txTeam = NoTeam
                THEN teams
                ELSE [teams EXCEPT ![local[r].txTeam.id] =
                        [totalTeamPoints |-> local[r].txTeam.totalTeamPoints,
                         teamLevel |-> local[r].txTeam.teamLevel]]
    /\ rowLock' = [row \in Rows |-> IF rowLock[row] = r THEN 0 ELSE rowLock[row]]
    /\ local' = [local EXCEPT ![r] = Returned(local[r])]
    /\ UNCHANGED <<windowVars, catalogVars, leaderboardVars, roleVars, seasonUpdate, adminVars>>

\* A statement of an open transaction fails in the store (connection lost,
\* statement timeout): the error leaves the callback and the transaction is
\* rolled back.
StorageError(r) ==
    /\ pc[r] \in {"found", "inserted", "profileRead", "profileUpdated", "teamRead", "ready"}
    /\ Rollback(r, "STORAGE_ERROR")

Next ==
    \/ \E r \in Requests, u \in UserIds, e \in ExerciseIds, c \in ChallengeIds \cup {NULL} :
          FindExercise(r, u, e, c)
    \/ \E r \in Requests : InsertLog(r)
    \/ \E r \in Requests : ReadProfile(r)
    \/ \E r \in Requests : UpdateProfile(r)
    \/ \E r \in Requests : ReadUserTeam(r)
    \/ \E r \in Requests : UpdateTeam(r)
    \/ \E r \in Requests : Commit(r)
    \/ \E r \in Requests : StorageError(r)

Spec == Init /\ [][Next]_vars
\* ------------------------------------------- challenge and season windows

\* Time passes.
Tick ==
    /\ now < MaxNow
    /\ now' = now + 1
    /\ UNCHANGED <<userProfiles, teams, exerciseLogs, rowLock, pc, local,
                   exercises, activeChallenges, activeSeasons>>
    /\ UNCHANGED <<catalogVars, leaderboardVars, roleVars, seasonUpdate, adminVars>>

\* and(lte(challenges.startsAt, now), gte(challenges.endsAt, now))
ChallengeListed(c, time) ==
    challenges[c].startsAt <= time /\ challenges[c].endsAt >= time

\* challengeRouter.listActive
ChallengeListActive ==
    /\ activeChallenges' = [called |-> TRUE, now |-> now,
                            rows |-> {c \in DOMAIN challenges : ChallengeListed(c, now)}]
    /\ UNCHANGED <<userProfiles, teams, exerciseLogs, rowLock, pc, local, now,
                   exercises, activeSeasons>>
    /\ UNCHANGED <<catalogVars, leaderboardVars, roleVars, seasonUpdate, adminVars>>

\* and(lte(seasons.startsAt, now), gte(seasons.endsAt, now), eq(seasons.isActive, true))
SeasonListed(s, time) ==
    /\ seasons[s].startsAt <= time
    /\ seasons[s].endsAt >= time
    /\ seasons[s].isActive

\* seasonRouter.listActive: the active seasons, each with those of its
\* challenges whose window holds the clock.
SeasonListActive ==
    /\ activeSeasons' =
          [called |-> TRUE, now |-> now,
           rows |-> {[id |-> s,
                      challenges |-> {c \in DOMAIN challenges :
                                         /\ challenges[c].seasonId = s
                                         /\ ChallengeListed(c, now)}] :
                     s \in {x \in DOMAIN seasons : SeasonListed(x, now)}}]
    /\ UNCHANGED <<userProfiles, teams, exerciseLogs, rowLock, pc, local, now,
                   exercises, activeChallenges>>
    /\ UNCHANGED <<catalogVars, leaderboardVars, roleVars, seasonUpdate, adminVars>>

\* challenge.startsAt && challenge.endsAt &&
\*     (challenge.startsAt > now || challenge.endsAt < now)  =>  "Challenge is not active"
ChallengeIsActive(c, time) ==
    ~(challenges[c].startsAt > time \/ challenges[c].endsAt < time)

\* const newLevel = Math.floor(newTotalPoints / 100) + 1;
LevelFromTotal(newTotalPoints) == (newTotalPoints \div 100) + 1

\* challengeRouter.logExercise, the earlier version: no transaction, every
\* statement commits on its own.  A missing or inactive challenge throws before
\* anything is written.  user_profiles.level references level_requirements
\* (schema.ts:97), so an UPDATE to a level without a ladder row throws, after
\* the exercises row has been committed.
ChallengeLogExercise(userId, challengeId, value) ==
    /\ Cardinality(exercises) < MaxExercises
    /\ challengeId \in DOMAIN challenges
    /\ ChallengeIsActive(challengeId, now)
    /\ exercises' = exercises \cup
          {[id |-> Cardinality(exercises) + 1, userId |-> userId,
            challengeId |-> challengeId, value |-> value, points |-> value,
            createdAt |-> now]}
    /\ IF /\ userId \in DOMAIN userProfiles
          /\ LevelFromTotal(userProfiles[userId].totalPoints + value)
                \in DOMAIN levelRequirements
       THEN userProfiles' = [userProfiles EXCEPT ![userId] =
                [@ EXCEPT !.totalPoints = @ + value,
                          !.level = LevelFromTotal(userProfiles[userId].totalPoints + value)]]
       ELSE UNCHANGED userProfiles
    /\ UNCHANGED <<teams, exerciseLogs, rowLock, pc, local, now,
                   activeChallenges, activeSeasons>>
    /\ UNCHANGED <<catalogVars, leaderboardVars, roleVars, seasonUpdate, adminVars>>

\* values a client may send as `value` (z.number().positive())
Values == {1, 100}

WindowNext ==
    \/ Tick
    \/ ChallengeListActive
    \/ SeasonListActive
    \/ \E u \in UserIds, c \in ChallengeIds, v \in Values : ChallengeLogExercise(u, c, v)

WindowSpec == Init /\ [][WindowNext]_vars

\* ------------------------------------------------ members at the top level
\* The same handler started from a store in which every member has already
\* logged the exercise "e2" three times, one submission after the other
\* (20, 40 and 60 points: levels 2, 3 and 4, the top of the ladder).
PastSubmissions == 3

MemberNumber == [u \in ProfiledUsers |-> CASE u = "u1" -> 0 [] u = "u2" -> 1 [] u = "u3" -> 2]

PastLogs ==
    {[id |-> 0 - (MemberNumber[u] * PastSubmissions + k), userId |-> u,
      exerciseId |-> "e2", challengeId |-> NULL,
      difficultyMultiplier |-> DifficultyMultiplier("e2"),
      points |-> Points("e2", NULL)] : u \in ProfiledUsers, k \in 1..PastSubmissions}

RECURSIVE LevelAfter(_, _, _)
\* The level of a member at the given level after n more sequential
\* submissions of the given points each, starting from the given total.
LevelAfter(n, level, total) ==
    IF n = 0 THEN level
    ELSE LevelAfter(n - 1, NewLevel(level, total + Points("e2", NULL)),
                    total + Points("e2", NULL))

PastProfile(u) ==
    [totalPoints |-> PastSubmissions * Points("e2", NULL),
     currentPoints |-> PastSubmissions * Points("e2", NULL),
     teamPoints |-> IF u \in DOMAIN teamMembers
                    THEN PastSubmissions * Points("e2", NULL) ELSE 0,
     level |-> LevelAfter(PastSubmissions, NewProfile.level, NewProfile.totalPoints)]

PastTeam(t) ==
    [totalTeamPoints |->
         Cardinality({u \in DOMAIN teamMembers : teamMembers[u] = t})
             * PastSubmissions * Points("e2", NULL),
     teamLevel |-> NewTeam.teamLevel]

VeteranInit ==
    /\ InitCatalog
    /\ leaderboards = {}
    /\ InitCalls
    /\ userProfiles = [u \in ProfiledUsers |-> PastProfile(u)]
    /\ teams = [t \in TeamIds |-> PastTeam(t)]
    /\ exerciseLogs = PastLogs
    /\ rowLock = [row \in Rows |-> 0]
    /\ pc = [r \in Requests |-> "idle"]
    /\ local = [r \in Requests |-> InitLocal]
    /\ now = 0
    /\ exercises = {}
    /\ activeChallenges = [called |-> FALSE, now |-> 0, rows |-> {}]
    /\ activeSeasons = [called |-> FALSE, now |-> 0, rows |-> {}]

VeteranSpec == VeteranInit /\ [][Next]_vars

\* The same handler started from a store in which only member "u1" has made
\* the earlier submissions; the other members start with nothing.
MixedInit ==
    /\ InitCatalog
    /\ leaderboards = {}
    /\ InitCalls
    /\ userProfiles = [u \in ProfiledUsers |->
                          IF u = "u1" THEN PastProfile(u) ELSE NewProfile]
    /\ teams = [t \in TeamIds |->
                   IF t = teamMembers["u1"]
                   THEN [totalTeamPoints |-> PastProfile("u1").teamPoints,
                         teamLevel |-> NewTeam.teamLevel]
                   ELSE NewTeam]
    /\ exerciseLogs = {l \in PastLogs : l.userId = "u1"}
    /\ rowLock = [row \in Rows |-> 0]
    /\ pc = [r \in Requests |-> "idle"]
    /\ local = [r \in Requests |-> InitLocal]
    /\ now = 0
    /\ exercises = {}
    /\ activeChallenges = [called |-> FALSE, now |-> 0, rows |-> {}]
    /\ activeSeasons = [called |-> FALSE, now |-> 0, rows |-> {}]

MixedSpec == MixedInit /\ [][Next]_vars

\* ------------------------------------------------------------ leaderboards
\* Rows of the leaderboards table.  No procedure writes the table; it starts
\* with the first few of these rows (id: serial, in creation order) and keeps
\* them.
LeaderboardRows ==
    {[id |-> 1, seasonId |-> "s1", challengeId |-> "c1", points |-> 20],
     [id |-> 2, seasonId |-> "s1", challengeId |-> "c1", points |-> 30],
     [id |-> 3, seasonId |-> "s1", challengeId |-> "c1", points |-> 20],
     [id |-> 4, seasonId |-> "s2", challengeId |-> "c2", points |-> 10]}

Cursors == {{}} \cup {{n} : n \in 0..MaxCursor}

\* where: eq(leaderboards.seasonId, id)
SeasonEntries(id) == {e \in leaderboards : e.seasonId = id}

\* where: eq(leaderboards.challengeId, id)
ChallengeEntries(id) == {e \in leaderboards : e.challengeId = id}

\* orderBy: [desc(leaderboards.points)] and nothing else: the store may return
\* the rows in any arrangement in which no row precedes one with more points.
Orderings(entries) ==
    {o \in [1..Cardinality(entries) -> entries] :
        \A i, j \in 1..Cardinality(entries) :
            i < j => (o[i] # o[j] /\ o[i].points >= o[j].points)}

\* offset: cursor (no OFFSET without a cursor)
Offset(cursor) == IF cursor = {} THEN 0 ELSE CHOOSE n \in cursor : TRUE

\* limit: limit + 1, offset: cursor
Fetched(order, limit, cursor) ==
    LET left == Len(order) - Offset(cursor)
        n == IF left < 0 THEN 0 ELSE IF left > limit + 1 THEN limit + 1 ELSE left
    IN [i \in 1..n |-> order[Offset(cursor) + i]]

\* A test for a further page that fires on a full page already.
HasMoreAtLimit(fetched, limit) == Len(fetched) >= limit

\* if (leaderboardEntries.length > limit)
HasMore(fetched, limit) == Len(fetched) > limit

\* nextCursor = cursor ? cursor + limit : limit
NextCursor(limit, cursor) ==
    IF cursor # {} /\ Offset(cursor) # 0 THEN {Offset(cursor) + limit} ELSE {limit}

\* leaderboardEntries.pop(), and return { items: leaderboardEntries, nextCursor }
Page(fetched, limit, cursor) ==
    IF HasMore(fetched, limit)
    THEN [items |-> SubSeq(fetched, 1, Len(fetched) - 1),
          nextCursor |-> NextCursor(limit, cursor)]
    ELSE [items |-> fetched, nextCursor |-> {}]

\* The query of either getLeaderboard procedure over the rows of its scope.
GetLeaderboard(scope, entries, id, limit, cursor) ==
    /\ \E order \in Orderings(entries) :
          LET page == Page(Fetched(order, limit, cursor), limit, cursor)
          IN leaderboard' = [called |-> TRUE, scope |-> scope, id |-> id,
                             limit |-> limit, cursor |-> cursor,
                             items |-> page.items, nextCursor |-> page.nextCursor]
    /\ previousLeaderboard' = leaderboard
    /\ UNCHANGED <<userProfiles, teams, exerciseLogs, rowLock, pc, local, windowVars,
                   catalogVars, leaderboards, adminVars, roleVars, seasonUpdate>>

\* seasonRouter.getLeaderboard
SeasonGetLeaderboard(id, limit, cursor) ==
    GetLeaderboard("season", SeasonEntries(id), id, limit, cursor)

\* challengeRouter.getLeaderboard
ChallengeGetLeaderboard(id, limit, cursor) ==
    GetLeaderboard("challenge", ChallengeEntries(id), id, limit, cursor)

LeaderboardInit ==
    /\ InitCatalog
    /\ userProfiles = [u \in ProfiledUsers |-> NewProfile]
    /\ teams = [t \in TeamIds |-> NewTeam]
    /\ exerciseLogs = {}
    /\ rowLock = [row \in Rows |-> 0]
    /\ pc = [r \in Requests |-> "idle"]
    /\ local = [r \in Requests |-> InitLocal]
    /\ now = 0
    /\ exercises = {}
    /\ activeChallenges = [called |-> FALSE, now |-> 0, rows |-> {}]
    /\ activeSeasons = [called |-> FALSE, now |-> 0, rows |-> {}]
    /\ leaderboards \in {{e \in LeaderboardRows : e.id <= n} :
                            n \in 0..Cardinality(LeaderboardRows)}
    /\ InitCalls

LeaderboardNext ==
    \/ \E id \in DOMAIN seasons, limit \in 1..MaxLimit, cursor \in Cursors :
          SeasonGetLeaderboard(id, limit, cursor)
    \/ \E id \in DOMAIN challenges, limit \in 1..MaxLimit, cursor \in Cursors :
          ChallengeGetLeaderboard(id, limit, cursor)

LeaderboardSpec == LeaderboardInit /\ [][LeaderboardNext]_vars

\* ---------------------------------------- creating seasons and challenges
CreateTimes == 1..MaxCreateTime

\* id: uuid().defaultRandom(): the ids of the rows created, in creation order.
NewSeasonIds == <<"s3", "s4", "s5">>
NewChallengeIds == <<"c3", "c4", "c5">>

CreatedSeasons == DOMAIN seasons \ DOMAIN InitialSeasons
CreatedChallenges == DOMAIN challenges \ DOMAIN InitialChallenges
CanCreate == Cardinality(CreatedSeasons) + Cardinality(CreatedChallenges) < MaxCreated

\* db.insert(seasons).values({...})
InsertSeason(startsAt, endsAt, isActive) ==
    seasons' = [s \in DOMAIN seasons \cup {NewSeasonIds[Cardinality(CreatedSeasons) + 1]} |->
                   IF s \in DOMAIN seasons THEN seasons[s]
                   ELSE [startsAt |-> startsAt, endsAt |-> endsAt, isActive |-> isActive]]

\* db.insert(challenges).values({...})
InsertChallenge(seasonId, startsAt, endsAt, pointsMultiplier) ==
    challenges' =
        [c \in DOMAIN challenges \cup {NewChallengeIds[Cardinality(CreatedChallenges) + 1]} |->
            IF c \in DOMAIN challenges THEN challenges[c]
            ELSE [seasonId |-> seasonId, startsAt |-> startsAt, endsAt |-> endsAt,
                  pointsMultiplier |-> pointsMultiplier]]

\* if (startsAt >= endsAt) throw BAD_REQUEST
InvalidRange(startsAt, endsAt) == startsAt >= endsAt

\* and(eq(seasons.isActive, true), lte(seasons.startsAt, endsAt),
\*     gte(seasons.endsAt, startsAt))
OverlappingSeasons(startsAt, endsAt) ==
    {s \in DOMAIN seasons : /\ seasons[s].isActive
                             /\ seasons[s].startsAt <= endsAt
                             /\ seasons[s].endsAt >= startsAt}

\* seasonRouter.create up to its INSERT: the date validation and, for an
\* active season, the query for overlapping active seasons.
SeasonCreateCheck(k, startsAt, endsAt, isActive) ==
    /\ seasonCreate[k].pc = "idle"
    /\ \A q \in SeasonCreateCalls : q < k => seasonCreate[q].pc # "idle"
    /\ CanCreate
    /\ IF \/ InvalidRange(startsAt, endsAt)
          \/ isActive /\ OverlappingSeasons(startsAt, endsAt) # {}
       THEN seasonCreate' = [seasonCreate EXCEPT ![k] =
                                [InitSeasonCreate EXCEPT !.pc = "failed",
                                                         !.error = "BAD_REQUEST"]]
       ELSE seasonCreate' = [seasonCreate EXCEPT ![k] =
                                [pc |-> "checked", startsAt |-> startsAt,
                                 endsAt |-> endsAt, isActive |-> isActive,
                                 error |-> NULL]]
    /\ UNCHANGED <<userProfiles, teams, exerciseLogs, rowLock, pc, local, windowVars,
                   catalogVars, leaderboardVars, roleVars, seasonUpdate, createResult, deleteExercise>>

\* seasonRouter.create: the INSERT and the return.
SeasonCreateInsert(k) ==
    /\ seasonCreate[k].pc = "checked"
    /\ CanCreate
    /\ InsertSeason(seasonCreate[k].startsAt, seasonCreate[k].endsAt,
                    seasonCreate[k].isActive)
    /\ seasonCreate' = [seasonCreate EXCEPT ![k] = [InitSeasonCreate EXCEPT !.pc = "done"]]
    /\ UNCHANGED <<userProfiles, teams, exerciseLogs, rowLock, pc, local, windowVars,
                   exerciseCatalog, challenges, leaderboardVars, roleVars, seasonUpdate, createResult,
                   deleteExercise>>

\* challengeRouter.create: date validation, season lookup, INSERT.
ChallengeCreate(seasonId, startsAt, endsAt, pointsMultiplier) ==
    /\ CanCreate
    /\ IF InvalidRange(startsAt, endsAt)
       THEN /\ createResult' = [procedure |-> "challenge.create", error |-> "BAD_REQUEST"]
            /\ UNCHANGED challenges
       ELSE IF seasonId \notin DOMAIN seasons
       THEN /\ createResult' = [procedure |-> "challenge.create", error |-> "NOT_FOUND"]
            /\ UNCHANGED challenges
       ELSE /\ createResult' = [procedure |-> "challenge.create", error |-> NULL]
            /\ InsertChallenge(seasonId, startsAt, endsAt, pointsMultiplier)
    /\ UNCHANGED <<userProfiles, teams, exerciseLogs, rowLock, pc, local, windowVars,
                   exerciseCatalog, seasons, leaderboardVars, roleVars, seasonUpdate, seasonCreate,
                   deleteExercise>>

\* adminRouter.createSeason: db.insert(seasons).values(input) in a try block.
AdminCreateSeason(startsAt, endsAt, isActive) ==
    /\ CanCreate
    /\ createResult' = [procedure |-> "admin.createSeason", error |-> NULL]
    /\ InsertSeason(startsAt, endsAt, isActive)
    /\ UNCHANGED <<userProfiles, teams, exerciseLogs, rowLock, pc, local, windowVars,
                   exerciseCatalog, challenges, leaderboardVars, roleVars, seasonUpdate, seasonCreate,
                   deleteExercise>>

\* adminRouter.createChallenge: db.insert(challenges).values(input) in a try
\* block; challenges.season_id is a foreign key, so a seasonId without a
\* seasons row makes the INSERT throw, which the catch block turns into
\* INTERNAL_SERVER_ERROR.
AdminCreateChallenge(seasonId, startsAt, endsAt, pointsMultiplier) ==
    /\ CanCreate
    /\ IF seasonId \notin DOMAIN seasons
       THEN /\ createResult' = [procedure |-> "admin.createChallenge",
                                error |-> "INTERNAL_SERVER_ERROR"]
            /\ UNCHANGED challenges
       ELSE /\ createResult' = [procedure |-> "admin.createChallenge", error |-> NULL]
            /\ InsertChallenge(seasonId, startsAt, endsAt, pointsMultiplier)
    /\ UNCHANGED <<userProfiles, teams, exerciseLogs, rowLock, pc, local, windowVars,
                   exerciseCatalog, seasons, leaderboardVars, roleVars, seasonUpdate, seasonCreate,
                   deleteExercise>>

\* The seasonId inputs: an initial season, a created one, one that is missing.
SeasonIdInputs == {"s1", "s3", "s9"}

CreateNext ==
    \/ \E k \in SeasonCreateCalls, startsAt \in CreateTimes, endsAt \in CreateTimes,
          isActive \in BOOLEAN : SeasonCreateCheck(k, startsAt, endsAt, isActive)
    \/ \E k \in SeasonCreateCalls : SeasonCreateInsert(k)
    \/ \E seasonId \in SeasonIdInputs, startsAt \in CreateTimes, endsAt \in CreateTimes :
          ChallengeCreate(seasonId, startsAt, endsAt, 1)
    \/ \E startsAt \in CreateTimes, endsAt \in CreateTimes, isActive \in BOOLEAN :
          AdminCreateSeason(startsAt, endsAt, isActive)
    \/ \E seasonId \in SeasonIdInputs, startsAt \in CreateTimes, endsAt \in CreateTimes :
          AdminCreateChallenge(seasonId, startsAt, endsAt, 1)

CreateSpec == Init /\ [][CreateNext]_vars

\* ----------------------------------------------------- deleting an exercise
\* The requests whose open transaction has inserted a log row for the
\* exercise: the foreign-key check of the INSERT holds a key-share lock on the
\* exercise_catalog row until the transaction ends.
KeyShareHolders(id) ==
    {r \in Requests : /\ pc[r] \in {"inserted", "profileRead", "profileUpdated",
                                     "teamRead", "ready"}
                      /\ local[r].exerciseId = id}

\* new TRPCError({ code }): an Error that is not a DatabaseError.
TRPCError(code) == [class |-> "TRPCError", code |-> code]

\* handleDatabaseError: the code of the TRPCError it throws.  Only a
\* DatabaseError is told apart by its code; every other Error, a TRPCError
\* among them, leaves as INTERNAL_SERVER_ERROR with its message.
handleDatabaseError(error) ==
    IF error.class = "DatabaseError"
    THEN CASE error.code = "23503" -> "PRECONDITION_FAILED"
           [] error.code = "23505" -> "CONFLICT"
           [] error.code = "23514" -> "BAD_REQUEST"
           [] OTHER -> "INTERNAL_SERVER_ERROR"
    ELSE "INTERNAL_SERVER_ERROR"

\* handleOperationError: catch (error) { handleDatabaseError(error, ...) }
handleOperationError(error) == handleDatabaseError(error)

\* adminRouter.deleteExercise up to its DELETE: exerciseLogs.findFirst for the
\* exercise, and the PRECONDITION_FAILED throw, which handleOperationError
\* passes to handleDatabaseError, which rethrows any Error as
\* INTERNAL_SERVER_ERROR.
DeleteExerciseCheck(id) ==
    /\ deleteExercise.pc = "idle"
    /\ IF \E l \in exerciseLogs : l.exerciseId = id
       THEN deleteExercise' = [pc |-> "failed", id |-> id,
                               error |-> handleOperationError(
                                             TRPCError("PRECONDITION_FAILED"))]
       ELSE deleteExercise' = [pc |-> "checked", id |-> id, error |-> NULL]
    /\ UNCHANGED <<userProfiles, teams, exerciseLogs, rowLock, pc, local, windowVars,
                   catalogVars, leaderboardVars, roleVars, seasonUpdate, seasonCreate, createResult>>

\* exercise_logs once the exercise_catalog row is gone: the foreign key
\* exercise_logs.exercise_id is declared onDelete: "cascade".
LogsAfterDelete(id) == {l \in exerciseLogs : l.exerciseId # id}

\* adminRouter.deleteExercise: db.delete(exerciseCatalog).where(id).returning()
\* as a statement of its own, and the NOT_FOUND throw for no row.  The DELETE
\* waits for the transactions that hold a key-share lock on the row.
DeleteExerciseRun ==
    /\ deleteExercise.pc = "checked"
    /\ KeyShareHolders(deleteExercise.id) = {}
    /\ IF deleteExercise.id \in DOMAIN exerciseCatalog
       THEN /\ exerciseCatalog' = [e \in DOMAIN exerciseCatalog \ {deleteExercise.id} |->
                                      exerciseCatalog[e]]
            /\ exerciseLogs' = LogsAfterDelete(deleteExercise.id)
            /\ deleteExercise' = [deleteExercise EXCEPT !.pc = "done"]
       ELSE /\ deleteExercise' = [deleteExercise EXCEPT
                                      !.pc = "failed",
                                      !.error = handleOperationError(TRPCError("NOT_FOUND"))]
            /\ UNCHANGED <<exerciseCatalog, exerciseLogs>>
    /\ UNCHANGED <<userProfiles, teams, rowLock, pc, local, windowVars,
                   challenges, seasons, leaderboardVars, roleVars, seasonUpdate, seasonCreate, createResult>>

DeleteNext ==
    \/ Next
    \/ \E id \in ExerciseIds : DeleteExerciseCheck(id)
    \/ DeleteExerciseRun

DeleteSpec == Init /\ [][DeleteNext]_vars

\* --------------------------------------------------------- updating seasons
\* The value of an optional input, or of the stored column when it is absent:
\* updateData.endsAt || existingSeason.endsAt
OrElse(given, stored) == IF given = {} THEN stored ELSE CHOOSE v \in given : TRUE

\* Optional inputs of seasonRouter.update: absent ({}) or present ({v}).
OptionalTimes == {{}} \cup {{t} : t \in CreateTimes}
OptionalFlags == {{}, {TRUE}, {FALSE}}

\* The id inputs of seasonRouter.update: the initial seasons and a missing one.
SeasonUpdateIds == DOMAIN InitialSeasons \cup {"s9"}

\* The date validation of the earlier seasonRouter.update:
\* if (updateData.startsAt && updateData.endsAt) and nothing for one bound.
UpdateInvalidRangeBothOnly(existingSeason, startsAt, endsAt) ==
    startsAt # {} /\ endsAt # {} /\ InvalidRange(OrElse(startsAt, 0), OrElse(endsAt, 0))

\* The date validation of the later seasonRouter.update: both given, only
\* startsAt given (against the stored endsAt), only endsAt given (against
\* the stored startsAt).
UpdateInvalidRange(existingSeason, startsAt, endsAt) ==
    IF startsAt # {} /\ endsAt # {}
    THEN InvalidRange(OrElse(startsAt, 0), OrElse(endsAt, 0))
    ELSE IF startsAt # {}
    THEN OrElse(startsAt, 0) >= existingSeason.endsAt
    ELSE IF endsAt # {}
    THEN existingSeason.startsAt >= OrElse(endsAt, 0)
    ELSE FALSE

\* if ((updateData.isActive === true || existingSeason.isActive) &&
\*     (updateData.startsAt || updateData.endsAt))
UpdateChecksOverlap(existingSeason, startsAt, endsAt, isActive) ==
    /\ isActive = {TRUE} \/ existingSeason.isActive
    /\ startsAt # {} \/ endsAt # {}

\* The overlap query of seasonRouter.update: the conditions of create's query
\* and eq(seasons.id, id), so the only row it can return is the season that
\* is being updated.
UpdateOverlappingSeasons(id, existingSeason, startsAt, endsAt) ==
    {s \in OverlappingSeasons(OrElse(startsAt, existingSeason.startsAt),
                              OrElse(endsAt, existingSeason.endsAt)) : s = id}

\* What the handler does after its reads: fail with an error or go on to the
\* UPDATE with the input it was given.
SeasonUpdateChecked(k, id, startsAt, endsAt, isActive, error) ==
    /\ seasonUpdate' = [seasonUpdate EXCEPT ![k] =
          IF error # NULL
          THEN [InitSeasonUpdate EXCEPT !.pc = "failed", !.error = error]
          ELSE [pc |-> "checked", id |-> id, startsAt |-> startsAt, endsAt |-> endsAt,
                isActive |-> isActive, error |-> NULL]]
    /\ UNCHANGED <<userProfiles, teams, exerciseLogs, rowLock, pc, local, windowVars,
                   catalogVars, leaderboardVars, roleVars, adminVars>>

\* seasonRouter.update up to its UPDATE: findFirst, the NOT_FOUND throw, the
\* date validation and the overlap query.
SeasonUpdateCheck(k, id, startsAt, endsAt, isActive) ==
    /\ seasonUpdate[k].pc = "idle"
    /\ \A q \in SeasonUpdateCalls : q < k => seasonUpdate[q].pc # "idle"
    /\ SeasonUpdateChecked(k, id, startsAt, endsAt, isActive,
          IF id \notin DOMAIN seasons THEN "NOT_FOUND"
          ELSE IF UpdateInvalidRange(seasons[id], startsAt, endsAt) THEN "BAD_REQUEST"
          ELSE IF /\ UpdateChecksOverlap(seasons[id], startsAt, endsAt, isActive)
                  /\ UpdateOverlappingSeasons(id, seasons[id], startsAt, endsAt) # {}
               THEN "BAD_REQUEST"
          ELSE NULL)

\* The earlier seasonRouter.update up to its UPDATE: findFirst, the NOT_FOUND
\* throw, and the date validation for an input with both dates.  Its input
\* has no isActive.
SeasonUpdateEarlierCheck(k, id, startsAt, endsAt) ==
    /\ seasonUpdate[k].pc = "idle"
    /\ \A q \in SeasonUpdateCalls : q < k => seasonUpdate[q].pc # "idle"
    /\ SeasonUpdateChecked(k, id, startsAt, endsAt, {},
          IF id \notin DOMAIN seasons THEN "NOT_FOUND"
          ELSE IF UpdateInvalidRangeBothOnly(seasons[id], startsAt, endsAt)
               THEN "BAD_REQUEST"
          ELSE NULL)

\* db.update(seasons).set(updateData).where(eq(seasons.id, id)): the columns
\* given are overwritten, the others keep their stored value.
SeasonsAfterUpdate(id, startsAt, endsAt, isActive) ==
    [seasons EXCEPT ![id] = [startsAt |-> OrElse(startsAt, @.startsAt),
                             endsAt |-> OrElse(endsAt, @.endsAt),
                             isActive |-> OrElse(isActive, @.isActive)]]

\* seasonRouter.update (either version): the UPDATE and the return.
SeasonUpdateWrite(k) ==
    /\ seasonUpdate[k].pc = "checked"
    /\ seasons' = SeasonsAfterUpdate(seasonUpdate[k].id, seasonUpdate[k].startsAt,
                                     seasonUpdate[k].endsAt, seasonUpdate[k].isActive)
    /\ seasonUpdate' = [seasonUpdate EXCEPT ![k] = [InitSeasonUpdate EXCEPT !.pc = "done"]]
    /\ UNCHANGED <<userProfiles, teams, exerciseLogs, rowLock, pc, local, windowVars,
                   exerciseCatalog, challenges, leaderboardVars, roleVars, adminVars>>

SeasonNext ==
    \/ \E k \in SeasonCreateCalls, startsAt \in CreateTimes, endsAt \in CreateTimes,
          isActive \in BOOLEAN : SeasonCreateCheck(k, startsAt, endsAt, isActive)
    \/ \E k \in SeasonCreateCalls : SeasonCreateInsert(k)
    \/ \E k \in SeasonUpdateCalls, id \in SeasonUpdateIds, startsAt \in OptionalTimes,
          endsAt \in OptionalTimes, isActive \in OptionalFlags :
          SeasonUpdateCheck(k, id, startsAt, endsAt, isActive)
    \/ \E k \in SeasonUpdateCalls, id \in SeasonUpdateIds, startsAt \in OptionalTimes,
          endsAt \in OptionalTimes : SeasonUpdateEarlierCheck(k, id, startsAt, endsAt)
    \/ \E k \in SeasonUpdateCalls : SeasonUpdateWrite(k)

SeasonSpec == Init /\ [][SeasonNext]_vars

\* -------------------------------------------------------------- admin role
\* Who may call: a signed-in user, or nobody signed in (NULL).
Callers == UserIds \cup {NULL}

\* The users a call may name: an existing user, or one that does not exist.
Targets == UserIds \cup {"u9"}

\* createContext: isAdmin = user?.publicMetadata?.role === "admin"
ContextIsAdmin(caller) == caller # NULL /\ roles[caller] = "admin"

\* The isAdmin middleware of adminProcedure: the error it throws, or NULL.
IsAdminMiddleware(caller) ==
    IF caller = NULL THEN "UNAUTHORIZED"
    ELSE IF ~ContextIsAdmin(caller) THEN "FORBIDDEN"
    ELSE NULL

\* clerk.users.updateUser(userId, { publicMetadata: { role } })
UpdateUser(userId, role) == roles' = [roles EXCEPT ![userId] = role]

\* adminRouter.setAdminRole({ username, isAdmin })
SetAdminRole(caller, username, isAdmin) ==
    /\ LET error == IF IsAdminMiddleware(caller) # NULL THEN IsAdminMiddleware(caller)
                    ELSE IF username \notin UserIds THEN "NOT_FOUND"
                    ELSE NULL
       IN /\ roleCall' = [procedure |-> "admin.setAdminRole", caller |-> caller,
                          callerIsAdmin |-> ContextIsAdmin(caller),
                          target |-> username, error |-> error]
          /\ IF error = NULL
             THEN UpdateUser(username, IF isAdmin THEN "admin" ELSE "user")
             ELSE UNCHANGED roles
    /\ UNCHANGED <<userProfiles, teams, exerciseLogs, rowLock, pc, local, windowVars,
                   catalogVars, leaderboardVars, adminVars, seasonUpdate>>

\* clerkMiddleware: /api/set-admin-role is not a public route, so
\* auth.protect() turns away a request without a session.
AuthProtect(caller) == caller # NULL

\* POST /api/set-admin-role with body { userId }
PostSetAdminRole(caller, userId) ==
    /\ LET error == IF ~AuthProtect(caller) THEN "UNAUTHORIZED"
                    ELSE IF userId = NULL THEN "400"
                    ELSE IF userId \notin UserIds THEN "500"
                    ELSE NULL
       IN /\ roleCall' = [procedure |-> "POST /api/set-admin-role", caller |-> caller,
                          callerIsAdmin |-> ContextIsAdmin(caller),
                          target |-> userId, error |-> error]
          /\ IF error = NULL
             THEN UpdateUser(userId, "admin")
             ELSE UNCHANGED roles
    /\ UNCHANGED <<userProfiles, teams, exerciseLogs, rowLock, pc, local, windowVars,
                   catalogVars, leaderboardVars, adminVars, seasonUpdate>>

RoleNext ==
    \/ \E caller \in Callers, username \in Targets, isAdmin \in BOOLEAN :
          SetAdminRole(caller, username, isAdmin)
    \/ \E caller \in Callers, userId \in Targets \cup {NULL} :
          PostSetAdminRole(caller, userId)

RoleSpec == Init /\ [][RoleNext]_vars

\* =================================================================== claims
RECURSIVE SumOver(_, _)
\* Sum of f[x] over the finite set S.
SumOver(S, f) ==
    IF S = {} THEN 0
    ELSE LET x == CHOOSE y \in S : TRUE IN f[x] + SumOver(S \ {x}, f)

DoneFor(u) == {r \in Requests : pc[r] = "done" /\ local[r].userId = u}
InFlightFor(u) == {r \in Requests : pc[r] \notin {"idle", "done", "failed"} /\ local[r].userId = u}
MembersOf(t) == {u \in DOMAIN teamMembers : teamMembers[u] = t}
LogsOf(U) == {l \in exerciseLogs : l.userId \in U}

\* C1: once two concurrent submissions of the same member have both succeeded,
\* the member's totalPoints is the starting total (0) plus the points of both:
\* no interleaving loses a delta.
C1_NoLostUpdate ==
    \A u \in ProfiledUsers :
        (Cardinality(DoneFor(u)) >= 2 /\ InFlightFor(u) = {})
            => userProfiles[u].totalPoints =
                   SumOver(DoneFor(u), [r \in Requests |-> local[r].points])

\* The highest ladder level whose pointsRequired is at most p.
HighestLevel(p) ==
    CHOOSE l \in DOMAIN levelRequirements :
        /\ levelRequirements[l] <= p
        /\ \A k \in DOMAIN levelRequirements : levelRequirements[k] <= p => k <= l

\* C2: every member's stored level is the highest ladder level whose
\* pointsRequired is at most the member's totalPoints.
C2_LevelIsHighestReached ==
    \A u \in ProfiledUsers :
        userProfiles[u].level = HighestLevel(userProfiles[u].totalPoints)

\* C3: the member side and the team side reflect the same submissions: in every
\* committed state a team's totalTeamPoints is the sum of the totalPoints its
\* members earned (all of it earned inside the team here), never more or less.
C3_MemberAndTeamAgree ==
    \A t \in TeamIds :
        teams[t].totalTeamPoints =
            SumOver(MembersOf(t), [u \in ProfiledUsers |-> userProfiles[u].totalPoints])

\* C4: no step lowers a member's committed totalPoints.
C4_TotalPointsMonotone ==
    [][\A u \in ProfiledUsers :
          userProfiles'[u].totalPoints >= userProfiles[u].totalPoints]_vars

\* C5: a team's totalTeamPoints is the sum of the points of all exercise log
\* entries of its members (memberships do not change here, so every entry was
\* made inside the team).
C5_TeamTotalIsSumOfLogs ==
    \A t \in TeamIds :
        teams[t].totalTeamPoints =
            SumOver(LogsOf(MembersOf(t)), [l \in exerciseLogs |-> l.points])

\* [startsAt, endsAt) contains the clock value.
WithinWindow(c, time) == challenges[c].startsAt <= time /\ time < challenges[c].endsAt

\* C6: the points awarded are 10 x difficulty multiplier x challenge multiplier,
\* the latter being the challenge's pointsMultiplier for a supplied challenge
\* within its window and 1 without a challenge.
C6_PointsFormula ==
    \A r \in Requests :
        pc[r] = "done" =>
            LET c == local[r].challengeId
                base == basePoints * DifficultyMultiplier(local[r].exerciseId)
            IN /\ c = NULL => local[r].points = base
               /\ (c \in DOMAIN challenges /\ WithinWindow(c, now))
                     => local[r].points = base * challenges[c].pointsMultiplier

\* C7: a submission that references a challenge whose endsAt is in the past
\* never succeeds, and leaves no exercise log entry and no change of totals.
C7_EndedChallengeRejected ==
    \A r \in Requests :
        LET c == local[r].challengeId IN
        (pc[r] # "idle" /\ c \in DOMAIN challenges /\ challenges[c].endsAt < now)
            => /\ pc[r] # "done"
               /\ \A l \in exerciseLogs : l.id # r

\* C8: challenge activity is the half-open interval [startsAt, endsAt): what the
\* listActive queries return, and what the window check of challenge
\* logExercise lets through, are exactly the challenges with
\* startsAt <= now < endsAt (active at startsAt, inactive at endsAt).
C8_HalfOpenWindow ==
    /\ activeChallenges.called =>
          activeChallenges.rows =
              {c \in DOMAIN challenges : WithinWindow(c, activeChallenges.now)}
    /\ activeSeasons.called =>
          \A row \in activeSeasons.rows :
              row.challenges = {c \in DOMAIN challenges :
                                   /\ challenges[c].seasonId = row.id
                                   /\ WithinWindow(c, activeSeasons.now)}
    /\ \A e \in exercises : WithinWindow(e.challengeId, e.createdAt)

\* C9: a submission that fails because the exercise does not exist or because
\* the caller has no profile fails with NOT_FOUND and the failing step leaves
\* the committed logs, profiles and teams as they were.
C9_FailureIsNotFoundAndClean ==
    [][\A r \in Requests :
          (/\ pc[r] # "failed" /\ pc'[r] = "failed"
           /\ local'[r].error # "STORAGE_ERROR"
           /\ \/ local'[r].exerciseId \notin DOMAIN exerciseCatalog
              \/ local'[r].userId \notin DOMAIN userProfiles)
          => /\ local'[r].error = "NOT_FOUND"
             /\ committed' = committed]_vars

\* C10: no step lowers a member's committed level.
C10_LevelMonotone ==
    [][\A u \in ProfiledUsers : userProfiles'[u].level >= userProfiles[u].level]_vars

\* The level the handler's rule yields from the level it read and a new total.
RuleLevel(level, newTotalPoints) ==
    IF /\ level + 1 \in DOMAIN levelRequirements
       /\ newTotalPoints >= levelRequirements[level + 1]
    THEN level + 1
    ELSE level

\* Request r commits in this step.
Commits(r) == pc[r] = "ready" /\ pc'[r] = "done"

AtTopLevel(level) == level + 1 \notin DOMAIN levelRequirements

C14_TeamLevelAdvances ==
    [][\A t \in TeamIds :
          (/\ teams'[t].totalTeamPoints > teams[t].totalTeamPoints
           /\ teams[t].teamLevel + 1 \in DOMAIN levelRequirements
           /\ teams'[t].totalTeamPoints >= levelRequirements[teams[t].teamLevel + 1])
              => teams'[t].teamLevel > teams[t].teamLevel]_vars

C16_TotalIsSumOfLogs ==
    /\ \A u \in ProfiledUsers :
           userProfiles[u].totalPoints =
               SumOver(LogsOf({u}), [l \in exerciseLogs |-> l.points])
    /\ \A r \in Requests :
           pc[r] = "done" => Cardinality({l \in exerciseLogs : l.id = r}) = 1

\* The rows of the scope a getLeaderboard result was queried for.
ScopeEntries(result) ==
    IF result.scope = "season" THEN SeasonEntries(result.id)
    ELSE ChallengeEntries(result.id)

\* C17: the items of a getLeaderboard result are in a total order, more points
\* first and, among equal points, the entry created earlier first; and two
\* successive calls with the same arguments (nothing writes in between) return
\* the same items in the same order and the same nextCursor.
C17_TotalOrderDeterministic ==
    /\ leaderboard.called =>
          \A i, j \in 1..Len(leaderboard.items) :
              i < j =>
                  \/ leaderboard.items[i].points > leaderboard.items[j].points
                  \/ /\ leaderboard.items[i].points = leaderboard.items[j].points
                     /\ leaderboard.items[i].id < leaderboard.items[j].id
    /\ (/\ leaderboard.called /\ previousLeaderboard.called
        /\ leaderboard.scope = previousLeaderboard.scope
        /\ leaderboard.id = previousLeaderboard.id
        /\ leaderboard.limit = previousLeaderboard.limit
        /\ leaderboard.cursor = previousLeaderboard.cursor)
          => /\ leaderboard.items = previousLeaderboard.items
             /\ leaderboard.nextCursor = previousLeaderboard.nextCursor

\* C18: a getLeaderboard call with a cursor at or beyond the number of entries
\* of the scope returns no items and no nextCursor; the returned page holds
\* limit entries or all that are left from the cursor on; and nextCursor is
\* present exactly when an entry of the scope lies after the returned page,
\* and then points at the first such entry.
C18_CursorAndLastPage ==
    leaderboard.called =>
        LET n == Cardinality(ScopeEntries(leaderboard))
            offset == Offset(leaderboard.cursor)
            shown == Len(leaderboard.items)
            left == IF n > offset THEN n - offset ELSE 0
        IN /\ offset >= n => (leaderboard.items = <<>> /\ leaderboard.nextCursor = {})
           /\ shown = IF left > leaderboard.limit THEN leaderboard.limit ELSE left
           /\ (leaderboard.nextCursor # {}) <=> (n > offset + shown)
           /\ leaderboard.nextCursor # {} =>
                  leaderboard.nextCursor = {offset + leaderboard.limit}

\* C18 witness: a first page came with a nextCursor, and a later call with a
\* cursor at or beyond the end of a non-empty scope returned an empty page
\* without nextCursor.
C18_Witness ==
    /\ leaderboard.called /\ previousLeaderboard.called
    /\ previousLeaderboard.nextCursor # {}
    /\ previousLeaderboard.items # <<>>
    /\ ScopeEntries(leaderboard) # {}
    /\ leaderboard.cursor # {}
    /\ Offset(leaderboard.cursor) >= Cardinality(ScopeEntries(leaderboard))
    /\ leaderboard.items = <<>>
    /\ leaderboard.nextCursor = {}

\* C19: no creating procedure stores a season or a challenge whose endsAt
\* precedes its startsAt.
C19_NoInvertedRangeStored ==
    /\ \A s \in DOMAIN seasons : ~(seasons[s].endsAt < seasons[s].startsAt)
    /\ \A c \in DOMAIN challenges : ~(challenges[c].endsAt < challenges[c].startsAt)

\* C20: an exercise referenced by a log entry is not deleted.  Whenever a
\* deleteExercise call ends, either it deleted the exercise, no log entry
\* references the exercise and the deleting step removed no log entry, or it
\* failed and that step left the catalog and the log entries as they were.
C20_DeleteNeverDropsLogs ==
    [][/\ (deleteExercise.pc = "checked" /\ deleteExercise'.pc = "done")
            => /\ exerciseLogs' = exerciseLogs
               /\ deleteExercise.id \notin DOMAIN exerciseCatalog'
               /\ \A l \in exerciseLogs' : l.exerciseId # deleteExercise.id
       /\ (deleteExercise.pc # "failed" /\ deleteExercise'.pc = "failed")
            => /\ exerciseLogs' = exerciseLogs
               /\ exerciseCatalog' = exerciseCatalog]_vars

C26_OthersUntouched ==
    [][/\ \A r \in Requests :
             Commits(r) =>
                 LET a == local[r].userId IN
                 /\ \A u \in ProfiledUsers \ {a} : userProfiles'[u] = userProfiles[u]
                 /\ LogsOf(ProfiledUsers \ {a})' = LogsOf(ProfiledUsers \ {a})
                 /\ \A t \in TeamIds :
                        (a \notin DOMAIN teamMembers \/ teamMembers[a] # t)
                            => teams'[t] = teams[t]
       /\ (\A r \in Requests : ~Commits(r)) => committed' = committed]_vars

\* C26 witness: member A of team t1 has succeeded while a submission of a
\* member outside t1 was open with its profile already read, and that member's
\* row and the other team are as they were created.
C26_Witness ==
    \E r1, r2 \in Requests :
        /\ pc[r1] = "done" /\ local[r1].userId \in DOMAIN teamMembers
        /\ pc[r2] \in {"profileRead", "profileUpdated", "ready"}
        /\ local[r2].userId \in ProfiledUsers \ DOMAIN teamMembers
        /\ userProfiles[local[r2].userId] = NewProfile
        /\ userProfiles[local[r1].userId].totalPoints = local[r1].points
        /\ \A t \in TeamIds \ {teamMembers[local[r1].userId]} : teams[t] = NewTeam

\* C29: the profile a successful submission returns equals the member's
\* stored profile row as the submission leaves it, in every field.
C29_ReturnedProfileIsStored ==
    [][\A r \in Requests :
          Commits(r) => local'[r].updatedProfile = userProfiles'[local[r].userId]]_vars

\* C22: the points awarded do not depend on the raw measurements: two
\* submissions stored by a log-exercise operation that agree on the challenge
\* (and the exercise) carry the same points whatever value they were sent with.
C22_PointsIgnoreMeasurements ==
    /\ \A e1, e2 \in exercises :
           e1.challengeId = e2.challengeId => e1.points = e2.points
    /\ \A l1, l2 \in exerciseLogs :
           (l1.exerciseId = l2.exerciseId /\ l1.challengeId = l2.challengeId)
               => l1.points = l2.points

\* The clock value lies within the challenge's window and within the window
\* of the season the challenge belongs to (both ends included, as the
\* queries compare).
InBothWindows(c, time) ==
    /\ challenges[c].startsAt <= time /\ time <= challenges[c].endsAt
    /\ seasons[challenges[c].seasonId].startsAt <= time
    /\ time <= seasons[challenges[c].seasonId].endsAt

\* C23: the challenges challengeRouter.listActive returns, and the challenges
\* nested in the result of seasonRouter.listActive, are exactly those whose
\* own window and whose season's window hold the time of the call.
C23_ActiveIffBothWindows ==
    /\ activeChallenges.called =>
          activeChallenges.rows =
              {c \in DOMAIN challenges : InBothWindows(c, activeChallenges.now)}
    /\ activeSeasons.called =>
          UNION {row.challenges : row \in activeSeasons.rows} =
              {c \in DOMAIN challenges : InBothWindows(c, activeSeasons.now)}

\* C24: a user who is not an admin obtains the admin role only through a call
\* made by a caller whose context had isAdmin true, whatever the entry point.
C24_AdminOnlyFromAdmin ==
    [][\A u \in UserIds :
          (roles[u] # "admin" /\ roles'[u] = "admin")
              => /\ roleCall'.callerIsAdmin
                 /\ roleCall'.target = u]_vars

\* C27: following nextCursor with a fixed limit repeats no entry.  When a
\* getLeaderboard call takes up the nextCursor of the call before it, with the
\* same scope, id and limit, no entry of its page was on the page before.
C27_PagesDoNotRepeat ==
    (/\ leaderboard.called /\ previousLeaderboard.called
     /\ leaderboard.scope = previousLeaderboard.scope
     /\ leaderboard.id = previousLeaderboard.id
     /\ leaderboard.limit = previousLeaderboard.limit
     /\ previousLeaderboard.nextCursor # {}
     /\ leaderboard.cursor = previousLeaderboard.nextCursor)
        => \A i \in 1..Len(previousLeaderboard.items), j \in 1..Len(leaderboard.items) :
               previousLeaderboard.items[i] # leaderboard.items[j]

\* C28: a deleteExercise call refused because the exercise has log entries
\* fails with PRECONDITION_FAILED, one for an exercise that does not exist
\* fails with NOT_FOUND, and in both cases nothing is deleted.
C28_DeleteReportsConstraint ==
    [][/\ (deleteExercise.pc = "idle" /\ deleteExercise'.pc = "failed")
            => /\ deleteExercise'.error = "PRECONDITION_FAILED"
               /\ UNCHANGED <<exerciseCatalog, exerciseLogs>>
       /\ (deleteExercise.pc = "checked" /\ deleteExercise'.pc = "failed")
            => /\ deleteExercise'.error = "NOT_FOUND"
               /\ UNCHANGED <<exerciseCatalog, exerciseLogs>>]_vars

\* C25: no two seasons with isActive true have overlapping time windows.
C25_ActiveSeasonsDisjoint ==
    \A s, t \in DOMAIN seasons :
        (s # t /\ seasons[s].isActive /\ seasons[t].isActive)
            => \/ seasons[s].endsAt < seasons[t].startsAt
               \/ seasons[t].endsAt < seasons[s].startsAt

\* C30: every stored season has startsAt strictly before endsAt.
C30_SeasonStartsBeforeEnd ==
    \A s \in DOMAIN seasons : seasons[s].startsAt < seasons[s].endsAt
====
